---------------------------- MODULE Spec2Model ----------------------------
(***************************************************************************)
(* A model of the calc pipeline: lexer (src/src/lexer.rs), parser          *)
(* (src/src/parser.rs) and stack virtual machine (src/src/vm.rs).          *)
(*                                                                         *)
(* Source text is a sequence of bytes (Lexer.source : &[u8]); a character  *)
(* is its byte value, so that the range patterns of Lexer::scan are ranges *)
(* of numbers.  Offsets are 0-based as in the source: byte i of the text   *)
(* is source[i + 1].                                                       *)
(***************************************************************************)
EXTENDS Integers, Sequences, FiniteSets, TLC

VARIABLES pc, source, lexed, tokens, parsed, use_radians, table, operations, result,
          output

vars == <<pc, source, lexed, tokens, parsed, use_radians, table, operations, result,
          output>>

\* The value of a variable that holds nothing yet.
None == [kind |-> "None"]

-----------------------------------------------------------------------------
(* Characters *)

Chars == <<"(", ")", "*", "+", ",", "-", ".", "/",
           "0", "1", "2", "3", "4", "5", "6", "7", "8", "9",
           "=", "@", "A", "Z", "^",
           "a", "b", "c", "d", "e", "f", "g", "h", "i", "j", "k", "l", "m",
           "n", "o", "p", "q", "r", "s", "t", "u", "v", "w", "x", "y", "z">>

Codes == <<40, 41, 42, 43, 44, 45, 46, 47,
           48, 49, 50, 51, 52, 53, 54, 55, 56, 57,
           61, 64, 65, 90, 94,
           97, 98, 99, 100, 101, 102, 103, 104, 105, 106, 107, 108, 109,
           110, 111, 112, 113, 114, 115, 116, 117, 118, 119, 120, 121, 122>>

\* The byte of a one-character string.
Ch(c) == Codes[CHOOSE i \in DOMAIN Chars : Chars[i] = c]

\* The bytes of a text given as a sequence of one-character strings.
Bytes(s) == [i \in 1..Len(s) |-> Ch(s[i])]

\* The bytes the lexer names, and the keywords of identifier_type.
LParenCh == Ch("(")
RParenCh == Ch(")")
CommaCh == Ch(",")
MinusCh == Ch("-")
PlusCh == Ch("+")
StarCh == Ch("*")
SlashCh == Ch("/")
DotCh == Ch(".")
ZeroCh == Ch("0")
NineCh == Ch("9")
LowerA == Ch("a")
LowerZ == Ch("z")
UpperA == Ch("A")
UpperZ == Ch("Z")
Whitespace == {32, 13, 10, 9}

SinText == Bytes(<<"s", "i", "n">>)
CosText == Bytes(<<"c", "o", "s">>)
TanText == Bytes(<<"t", "a", "n">>)
ArcSinText == Bytes(<<"a", "r", "c", "s", "i", "n">>)
ArcCosText == Bytes(<<"a", "r", "c", "c", "o", "s">>)
ArcTanText == Bytes(<<"a", "r", "c", "t", "a", "n">>)

\* source[from..to) with 0-based offsets, as the slice &self.source[from..to].
Slice(s, from, to) == [i \in 1..(to - from) |-> s[from + i]]

RECURSIVE Concat(_)
Concat(ss) == IF ss = <<>> THEN <<>> ELSE Head(ss) \o Concat(Tail(ss))

-----------------------------------------------------------------------------
(* Tokens: src/src/token.rs *)

FunctionTypes == {"Sin", "Cos", "Tan", "ArcSin", "ArcCos", "ArcTan"}

TokenType == {"LeftParen", "RightParen", "Comma", "Minus", "Plus", "Slash", "Star",
              "Number", "Ans", "EOF"} \cup FunctionTypes

Token(token_type, lexeme, span) ==
    [token_type |-> token_type, lexeme |-> lexeme, span |-> span]

-----------------------------------------------------------------------------
(* Lexer: src/src/lexer.rs                                                 *)
(*                                                                         *)
(* A lexer value L is the struct Lexer {source, tokens, start, curr},      *)
(* with three fields the struct does not have: error, the LexError a       *)
(* helper returned (None while there is none); stdout, the characters the  *)
(* lexer printed, in order; and starts, the offsets self.start took at the *)
(* top of the scan loop, in order.                                         *)

from_bytes(src) ==
    [source |-> src, tokens |-> <<>>, start |-> 0, curr |-> 0,
     error |-> None, stdout |-> <<>>, starts |-> <<>>]

UnexpectedChar(c, span) == [kind |-> "UnexpectedChar", char |-> c, span |-> span]
UnknownIdentifier(lexeme, span) ==
    [kind |-> "UnknownIdentifier", lexeme |-> lexeme, span |-> span]
InvalidNumber(lexeme, span) == [kind |-> "InvalidNumber", lexeme |-> lexeme, span |-> span]
InvalidUTF8(span) == [kind |-> "InvalidUTF8", span |-> span]

is_digit(c) == ZeroCh <= c /\ c <= NineCh

is_alpha(c) == (LowerA <= c /\ c <= LowerZ) \/ (UpperA <= c /\ c <= UpperZ)

is_at_end(L) == L.curr >= Len(L.source)

\* '\0' at the end of the text.
peek(L) == IF is_at_end(L) THEN 0 ELSE L.source[L.curr + 1]

increment(L) == [L EXCEPT !.curr = @ + 1]

\* advance returns the byte at curr and increments; every call of it in the
\* lexer follows a test that curr is inside the text.
advance(L) == increment(L)

add_token(L, token_type, lexeme) ==
    [L EXCEPT !.tokens = Append(@, Token(token_type, lexeme, <<L.start, L.curr>>))]

\* str::from_utf8 of a slice: a slice of ASCII bytes decodes to itself.  A byte
\* above 127 standing alone among ASCII bytes is no UTF-8 sequence.
from_utf8_ok(bytes) == \A i \in DOMAIN bytes : bytes[i] < 128

(* <str>::parse::<f64> on a lexeme.  The lexemes of the lexer hold digits   *)
(* and '.' only, and on those the grammar of f64::from_str is               *)
(* Digit* ['.' Digit*] with at least one digit: it reads the integer        *)
(* digits, an optional point and the fraction digits, and fails when no     *)
(* digit was read or when text is left over.                                *)
RECURSIVE digits_prefix(_)
digits_prefix(bytes) ==
    IF bytes # <<>> /\ is_digit(Head(bytes)) THEN 1 + digits_prefix(Tail(bytes)) ELSE 0

parse_f64(bytes) ==
    LET ni == digits_prefix(bytes)
        rest == SubSeq(bytes, ni + 1, Len(bytes))
        point == rest # <<>> /\ Head(rest) = DotCh
        frac == IF point THEN Tail(rest) ELSE rest
        nf == IF point THEN digits_prefix(frac) ELSE 0
        left == SubSeq(frac, nf + 1, Len(frac))
    IN  IF ni + nf = 0 \/ left # <<>>
        THEN [ok |-> FALSE]
        ELSE [ok |-> TRUE,
              int |-> SubSeq(bytes, 1, ni),
              frac |-> SubSeq(frac, 1, nf)]

identifier_type(lexeme) ==
    CASE lexeme = SinText -> [ok |-> TRUE, token_type |-> "Sin"]
      [] lexeme = CosText -> [ok |-> TRUE, token_type |-> "Cos"]
      [] lexeme = TanText -> [ok |-> TRUE, token_type |-> "Tan"]
      [] lexeme = ArcSinText -> [ok |-> TRUE, token_type |-> "ArcSin"]
      [] lexeme = ArcCosText -> [ok |-> TRUE, token_type |-> "ArcCos"]
      [] lexeme = ArcTanText -> [ok |-> TRUE, token_type |-> "ArcTan"]
      [] OTHER -> [ok |-> FALSE]

\* while Self::is_alpha(self.peek()) { self.advance(); }
RECURSIVE identifier_run(_)
identifier_run(L) == IF is_alpha(peek(L)) THEN identifier_run(advance(L)) ELSE L

identifier(L) ==
    LET L1 == identifier_run(L)
        lexeme == Slice(L1.source, L1.start, L1.curr)
        span == <<L1.start, L1.curr>>
        ty == identifier_type(lexeme)
    IN  IF ~from_utf8_ok(lexeme) THEN [L1 EXCEPT !.error = InvalidUTF8(span)]
        ELSE IF ~ty.ok THEN [L1 EXCEPT !.error = UnknownIdentifier(lexeme, span)]
        ELSE add_token(L1, ty.token_type, lexeme)

\* while Self::is_digit(self.peek()) { let c = self.advance(); println!("{}", c); }
RECURSIVE number_digits(_)
number_digits(L) ==
    IF is_digit(peek(L))
    THEN number_digits([advance(L) EXCEPT !.stdout = Append(@, peek(L))])
    ELSE L

\* number_fraction with a loop that stops at a second point.
RECURSIVE number_fraction_digits_only(_)
number_fraction_digits_only(L) ==
    IF is_digit(peek(L)) THEN number_fraction_digits_only(advance(L)) ELSE L

\* while Self::is_digit(self.peek()) || self.peek() == '.' { self.advance(); }
RECURSIVE number_fraction(_)
number_fraction(L) ==
    IF is_digit(peek(L)) \/ peek(L) = DotCh THEN number_fraction(advance(L)) ELSE L

number(L) ==
    LET L1 == number_digits(L)
        L2 == IF peek(L1) = DotCh THEN number_fraction(advance(L1)) ELSE L1
        lexeme == Slice(L2.source, L2.start, L2.curr)
        span == <<L2.start, L2.curr>>
    IN  IF ~from_utf8_ok(lexeme) THEN [L2 EXCEPT !.error = InvalidUTF8(span)]
        ELSE IF ~parse_f64(lexeme).ok THEN [L2 EXCEPT !.error = InvalidNumber(lexeme, span)]
        ELSE add_token(L2, "Number", lexeme)

\* One turn of the loop of Lexer::scan on the byte c that advance returned; L
\* is the lexer after self.start = self.curr and the advance.
scan_char(L, c) ==
    CASE c = LParenCh -> add_token(L, "LeftParen", <<c>>)
      [] c = RParenCh -> add_token(L, "RightParen", <<c>>)
      [] c = CommaCh -> add_token(L, "Comma", <<c>>)
      [] c = MinusCh -> add_token(L, "Minus", <<c>>)
      [] c = PlusCh -> add_token(L, "Plus", <<c>>)
      [] c = StarCh -> add_token(L, "Star", <<c>>)
      [] c = SlashCh -> add_token(L, "Slash", <<c>>)
      [] c \in Whitespace -> L
      [] is_digit(c) \/ c = DotCh -> number(L)
      \* 'a'..'z' is a half-open range: it ends at 'y'.   'A'..='Z' is closed.
      [] (LowerA <= c /\ c < LowerZ) \/ (UpperA <= c /\ c <= UpperZ) -> identifier(L)
      [] OTHER -> [L EXCEPT !.error = UnexpectedChar(c, <<L.start, L.curr>>)]

RECURSIVE scan_loop(_)
scan_loop(L) ==
    IF is_at_end(L) THEN L
    ELSE LET L0 == [L EXCEPT !.start = L.curr, !.starts = Append(@, L.curr)]
             L1 == scan_char(advance(L0), peek(L0))
         IN  IF L1.error # None THEN L1 ELSE scan_loop(L1)

\* lexer_scan with the end-of-input token's span closed at the offset it starts at.
lexer_scan_empty_eof(L) ==
    LET L1 == scan_loop(L)
        L2 == add_token([L1 EXCEPT !.start = L1.curr], "EOF", <<>>)
    IN  IF L1.error # None
        THEN [kind |-> "Err", error |-> L1.error, tokens |-> L1.tokens,
              stdout |-> L1.stdout, starts |-> L1.starts]
        ELSE [kind |-> "Ok", tokens |-> L2.tokens, stdout |-> L2.stdout, starts |-> L2.starts]

\* lexer_scan that adds no end-of-input token.
lexer_scan_no_eof(L) ==
    LET L1 == scan_loop(L)
    IN  IF L1.error # None
        THEN [kind |-> "Err", error |-> L1.error, tokens |-> L1.tokens,
              stdout |-> L1.stdout, starts |-> L1.starts]
        ELSE [kind |-> "Ok", tokens |-> L1.tokens, stdout |-> L1.stdout, starts |-> L1.starts]

\* Lexer::scan: the result holds the tokens (Ok) or the error (Err), and what
\* the call printed and where its tokens started.  With Err, tokens is the
\* field Lexer.tokens as the failed call left it (pub fn scan drops it).
lexer_scan(L) ==
    LET L1 == scan_loop(L)
        L2 == add_token(increment([L1 EXCEPT !.start = L1.curr]), "EOF", <<>>)
    IN  IF L1.error # None
        THEN [kind |-> "Err", error |-> L1.error, tokens |-> L1.tokens,
              stdout |-> L1.stdout, starts |-> L1.starts]
        ELSE [kind |-> "Ok", tokens |-> L2.tokens, stdout |-> L2.stdout, starts |-> L2.starts]

\* pub fn scan(source)
scan(src) == lexer_scan(from_bytes(src))

-----------------------------------------------------------------------------
(* Numbers: f64, src/src/operation.rs Const(f64)                            *)
(*                                                                         *)
(* A number is an exact fraction [num, den] in lowest terms with den > 0.  *)
(* Within the bounds of the specifications below every fraction reached is *)
(* a small integer or has a small power of two as its denominator, and on  *)
(* those f64 arithmetic is exact.                                          *)

RECURSIVE GCD(_, _)
GCD(a, b) == IF b = 0 THEN a ELSE GCD(b, a % b)

Abs(n) == IF n < 0 THEN -n ELSE n

Rat(n, d) ==
    LET g == GCD(Abs(n), Abs(d))
        sign == IF d < 0 THEN -1 ELSE 1
    IN  [num |-> sign * (n \div g), den |-> sign * (d \div g)]

Int2Rat(n) == [num |-> n, den |-> 1]

RECURSIVE DigitsValue(_)
DigitsValue(bytes) ==
    IF bytes = <<>> THEN 0
    ELSE 10 * DigitsValue(SubSeq(bytes, 1, Len(bytes) - 1)) + (bytes[Len(bytes)] - ZeroCh)

RECURSIVE Pow10(_)
Pow10(n) == IF n = 0 THEN 1 ELSE 10 * Pow10(n - 1)

\* The value lexeme.parse::<f64>() returns for a lexeme it accepts: the digits
\* before and after the point, read as one integer, over ten to the number of
\* digits after the point.
f64_value(lexeme) ==
    LET r == parse_f64(lexeme)
    IN  Rat(DigitsValue(r.int \o r.frac), Pow10(Len(r.frac)))

-----------------------------------------------------------------------------
(* Operations: src/src/operation.rs *)

Const(val) == [op |-> "Const", val |-> val]
Op(name) == [op |-> name]

-----------------------------------------------------------------------------
(* Parser: src/src/parser.rs                                               *)
(*                                                                         *)
(* A parser value P is the struct Parser {tokens, operations, curr, prev}  *)
(* with one field the struct does not have: error, the ParseError a rule   *)
(* returned, or [kind |-> "Panic"] once an index was out of range or an    *)
(* unwrap failed (None while there is none).                                *)
(*                                                                         *)
(* get_parse_rule, unary and binary name the token kinds Caret, Ln and Exp *)
(* and binary names Operation::Power; token.rs and operation.rs declare    *)
(* none of the four, and no token of these kinds exists.                    *)

\* #[derive(PartialOrd, Ord)] orders the levels as they are declared.
PrecedenceOrder == <<"None", "Term", "Factor", "Unary", "Exponent", "Call", "Primary">>

Rank(precedence) == CHOOSE i \in DOMAIN PrecedenceOrder : PrecedenceOrder[i] = precedence

\* next that stays at the level it is given.
next_same_level(precedence) == precedence

\* Precedence::next
next(precedence) ==
    CASE precedence = "None" -> "Term"
      [] precedence = "Term" -> "Factor"
      [] precedence = "Factor" -> "Exponent"
      [] precedence = "Exponent" -> "Unary"
      [] precedence = "Unary" -> "Call"
      [] precedence = "Call" -> "Primary"
      [] precedence = "Primary" -> "Primary"

ParseRule(prefix, infix, precedence) ==
    [prefix |-> prefix, infix |-> infix, precedence |-> precedence]

\* get_parse_rule with * and / binding no tighter than + and -.
get_parse_rule_flat(token_type) ==
    CASE token_type = "Caret" -> ParseRule("None", "binary", "Exponent")
      [] token_type = "LeftParen" -> ParseRule("grouping", "None", "Call")
      [] token_type = "Minus" -> ParseRule("unary", "binary", "Term")
      [] token_type = "Plus" -> ParseRule("None", "binary", "Term")
      [] token_type = "Slash" -> ParseRule("None", "binary", "Term")
      [] token_type = "Star" -> ParseRule("None", "binary", "Term")
      [] token_type = "Ans" -> ParseRule("ans", "None", "None")
      [] token_type = "Number" -> ParseRule("number", "None", "None")
      [] token_type \in {"Sin", "Cos", "Tan", "ArcSin", "ArcCos", "ArcTan", "Exp", "Ln"} ->
             ParseRule("unary", "None", "Term")
      [] OTHER -> ParseRule("None", "None", "None")

get_parse_rule(token_type) ==
    CASE token_type = "Caret" -> ParseRule("None", "binary", "Exponent")
      [] token_type = "LeftParen" -> ParseRule("grouping", "None", "Call")
      [] token_type = "Minus" -> ParseRule("unary", "binary", "Term")
      [] token_type = "Plus" -> ParseRule("None", "binary", "Term")
      [] token_type = "Slash" -> ParseRule("None", "binary", "Factor")
      [] token_type = "Star" -> ParseRule("None", "binary", "Factor")
      [] token_type = "Ans" -> ParseRule("ans", "None", "None")
      [] token_type = "Number" -> ParseRule("number", "None", "None")
      [] token_type \in {"Sin", "Cos", "Tan", "ArcSin", "ArcCos", "ArcTan", "Exp", "Ln"} ->
             ParseRule("unary", "None", "Term")
      [] OTHER -> ParseRule("None", "None", "None")

Parser_new ==
    [tokens |-> <<>>, operations |-> <<>>, curr |-> 0, prev |-> 0, error |-> None]

ExpectExpression(token) == [kind |-> "ExpectExpression", token |-> token]
ExpectEndOfExpression == [kind |-> "ExpectEndOfExpression"]
ExpectRightParenAfterExpression(token) ==
    [kind |-> "ExpectRightParenAfterExpression", token |-> token]
Panic == [kind |-> "Panic"]

parser_advance(P) == [P EXCEPT !.prev = P.curr, !.curr = P.curr + 1]

parser_is_at_end(P) == P.curr >= Len(P.tokens)

\* &self.tokens[self.curr] and &self.tokens[self.prev]: read only where the
\* index is inside tokens (the callers below test it and panic otherwise).
curr(P) == P.tokens[P.curr + 1]
prev(P) == P.tokens[P.prev + 1]

check(P, token_type) == curr(P).token_type = token_type

push(P, operation) == [P EXCEPT !.operations = Append(@, operation)]

\* consume(TokenType::EOF, |_| ExpectEndOfExpression)
consume_eof(P) ==
    IF ~parser_is_at_end(P) /\ check(P, "EOF") THEN parser_advance(P)
    ELSE [P EXCEPT !.error = ExpectEndOfExpression]

\* consume(TokenType::RightParen, |s| ExpectRightParenAfterExpression {s.curr()}):
\* the closure indexes tokens at curr, also when consume found curr at the end.
consume_right_paren(P) ==
    IF ~parser_is_at_end(P) /\ check(P, "RightParen") THEN parser_advance(P)
    ELSE IF parser_is_at_end(P) THEN [P EXCEPT !.error = Panic]
    ELSE [P EXCEPT !.error = ExpectRightParenAfterExpression(curr(P))]

parser_number(P) ==
    IF ~parse_f64(prev(P).lexeme).ok THEN [P EXCEPT !.error = Panic]
    ELSE push(P, Const(f64_value(prev(P).lexeme)))

\* ans that pushes no operation.
ans_pushes_nothing(P) == P

ans(P) == push(P, Op("Ans"))

unary_operation(token_type) ==
    CASE token_type = "Minus" -> "Negate"
      [] token_type \in {"Sin", "Cos", "Tan", "ArcSin", "ArcCos", "ArcTan", "Ln", "Exp"} ->
             token_type
      [] OTHER -> "None"

binary_operation(token_type) ==
    CASE token_type = "Plus" -> "Add"
      [] token_type = "Minus" -> "Subtract"
      [] token_type = "Star" -> "Times"
      [] token_type = "Slash" -> "Divide"
      [] token_type = "Caret" -> "Power"
      [] OTHER -> "None"

RECURSIVE parse_precedence(_, _)
RECURSIVE infix_loop(_, _)
RECURSIVE expression(_)
RECURSIVE grouping(_)
RECURSIVE unary(_)
RECURSIVE binary(_)

expression(P) == parse_precedence(P, "Term")

grouping(P) ==
    LET P1 == expression(P)
    IN  IF P1.error # None THEN P1 ELSE consume_right_paren(P1)

unary(P) ==
    LET prev_token_type == prev(P).token_type
        P1 == parse_precedence(P, "Unary")
        operation == unary_operation(prev_token_type)
    IN  IF P1.error # None THEN P1
        ELSE IF operation = "None" THEN P1
        ELSE push(P1, Op(operation))

binary(P) ==
    LET operator_type == prev(P).token_type
        parse_rule == get_parse_rule(operator_type)
        P1 == parse_precedence(P, next(parse_rule.precedence))
        operation == binary_operation(operator_type)
    IN  IF P1.error # None THEN P1
        ELSE IF operation = "None" THEN P1
        ELSE push(P1, Op(operation))

\* The prefix or infix rule that get_parse_rule names.
apply_rule(rule, P) ==
    CASE rule = "grouping" -> grouping(P)
      [] rule = "unary" -> unary(P)
      [] rule = "binary" -> binary(P)
      [] rule = "number" -> parser_number(P)
      [] rule = "ans" -> ans(P)

\* The while loop of parse_precedence: a token whose precedence is not below
\* the level is consumed, and its infix rule, when it has one, is run.
infix_loop(P, precedence) ==
    IF parser_is_at_end(P) THEN P
    ELSE IF Rank(precedence) > Rank(get_parse_rule(curr(P).token_type).precedence) THEN P
    ELSE LET P1 == parser_advance(P)
             infix_rule == get_parse_rule(prev(P1).token_type).infix
             P2 == IF infix_rule = "None" THEN P1 ELSE apply_rule(infix_rule, P1)
         IN  IF P2.error # None THEN P2 ELSE infix_loop(P2, precedence)

parse_precedence(P, precedence) ==
    LET P1 == parser_advance(P)
    IN  IF P1.prev >= Len(P1.tokens) THEN [P1 EXCEPT !.error = Panic]
        ELSE LET prefix_rule == get_parse_rule(prev(P1).token_type).prefix
                 P2 == apply_rule(prefix_rule, P1)
             IN  IF prefix_rule = "None" THEN [P1 EXCEPT !.error = ExpectExpression(prev(P1))]
                 ELSE IF P2.error # None THEN P2
                 ELSE infix_loop(P2, precedence)

\* Parser::parse
parser_parse(P, toks) ==
    LET P0 == [P EXCEPT !.tokens = toks]
        P1 == expression(P0)
    IN  IF P1.error # None THEN P1 ELSE consume_eof(P1)

\* pub fn parse(tokens): Ok(operations), Err(error), or a panic.
parse(toks) ==
    LET P == parser_parse(Parser_new, toks)
    IN  IF P.error = Panic THEN [kind |-> "Panic"]
        ELSE IF P.error # None THEN [kind |-> "Err", error |-> P.error]
        ELSE [kind |-> "Ok", operations |-> P.operations]

-----------------------------------------------------------------------------
(* Virtual machine: src/src/vm.rs                                          *)
(*                                                                         *)
(* A value on the stack is a fraction, or a term [fn, args] that names the *)
(* f64 a library function (sin, to_radians, ...) or an arithmetic          *)
(* operation returned for operands that are not all fractions.  The        *)
(* functions are exact where f64 is: sin 0 = tan 0 = asin 0 = atan 0 = 0,  *)
(* cos 0 = 1, acos 1 = 0.                                                  *)
(*                                                                         *)
(* The two tests the machine makes on a value, x == 0.0 and is_nan(), are  *)
(* decided by the value when it determines them.  For the other terms the  *)
(* model does not compute the f64: the answer is guess[i], an input of the *)
(* call for the operation at position i, so that both answers are covered. *)

IsRat(v) == "num" \in DOMAIN v

Sym(fn, args) == [fn |-> fn, args |-> args]

f64_add(y, x) ==
    IF IsRat(y) /\ IsRat(x) THEN Rat(y.num * x.den + x.num * y.den, y.den * x.den)
    ELSE Sym("add", <<y, x>>)

f64_sub(y, x) ==
    IF IsRat(y) /\ IsRat(x) THEN Rat(y.num * x.den - x.num * y.den, y.den * x.den)
    ELSE Sym("sub", <<y, x>>)

f64_mul(y, x) ==
    IF IsRat(y) /\ IsRat(x) THEN Rat(y.num * x.num, y.den * x.den)
    ELSE Sym("mul", <<y, x>>)

\* y / x for x that is not zero.
f64_div(y, x) ==
    IF IsRat(y) /\ IsRat(x) THEN Rat(y.num * x.den, y.den * x.num)
    ELSE Sym("div", <<y, x>>)

f64_neg(val) == IF IsRat(val) THEN Rat(-val.num, val.den) ELSE Sym("neg", <<val>>)

Zero == Int2Rat(0)
One == Int2Rat(1)

\* A library function that maps the fraction `from` to the fraction `to` exactly.
Library(fn, from, to, val) == IF val = from THEN to ELSE Sym(fn, <<val>>)

to_radians(val) == Library("to_radians", Zero, Zero, val)
to_degrees(val) == Library("to_degrees", Zero, Zero, val)
sin(val) == Library("sin", Zero, Zero, val)
cos(val) == Library("cos", Zero, One, val)
tan(val) == Library("tan", Zero, Zero, val)
asin(val) == Library("asin", Zero, Zero, val)
acos(val) == Library("acos", One, Zero, val)
atan(val) == Library("atan", Zero, Zero, val)

\* x == 0.0.  A library function of a fraction is zero only where Library
\* says so.
is_zero(x, answer) ==
    IF IsRat(x) THEN x.num = 0
    ELSE IF Len(x.args) = 1 /\ IsRat(x.args[1]) /\ x.fn # "neg" THEN FALSE
    ELSE answer

\* asin(val).is_nan() and acos(val).is_nan(): val lies outside [-1, 1].  A sine
\* or a cosine lies inside.
outside_unit(val, answer) ==
    IF IsRat(val) THEN Abs(val.num) > val.den
    ELSE IF val.fn \in {"sin", "cos"} THEN FALSE
    ELSE answer

RuntimeError == {"MathError", "DomainError", "Underflow", "NotImplemented"}

\* The outcome of one operation: the stack after it, or the error.
Pushed(stack) == [stack |-> stack, error |-> "None"]
Failed(error) == [stack |-> <<>>, error |-> error]

\* stack.pop() twice gave Some(x), Some(y): x is the top of the stack.
Top(stack) == stack[Len(stack)]
Second(stack) == stack[Len(stack) - 1]
Pop(stack, n) == SubSeq(stack, 1, Len(stack) - n)

interpret_add(stack) ==
    IF Len(stack) >= 2
    THEN Pushed(Append(Pop(stack, 2), f64_add(Second(stack), Top(stack))))
    ELSE Failed("Underflow")

\* interpret_subtract with the operands taken in the order they are popped.
interpret_subtract_swapped(stack) ==
    IF Len(stack) >= 2
    THEN Pushed(Append(Pop(stack, 2), f64_sub(Top(stack), Second(stack))))
    ELSE Failed("Underflow")

interpret_subtract(stack) ==
    IF Len(stack) >= 2
    THEN Pushed(Append(Pop(stack, 2), f64_sub(Second(stack), Top(stack))))
    ELSE Failed("Underflow")

interpret_times(stack) ==
    IF Len(stack) >= 2
    THEN Pushed(Append(Pop(stack, 2), f64_mul(Second(stack), Top(stack))))
    ELSE Failed("Underflow")

\* interpret_divide without the test of the divisor: y / x is pushed as it is.
interpret_divide_unchecked(stack, answer) ==
    IF Len(stack) >= 2
    THEN Pushed(Append(Pop(stack, 2), Sym("div", <<Second(stack), Top(stack)>>)))
    ELSE Failed("Underflow")

interpret_divide(stack, answer) ==
    IF Len(stack) >= 2
    THEN IF is_zero(Top(stack), answer) THEN Failed("MathError")
         ELSE Pushed(Append(Pop(stack, 2), f64_div(Second(stack), Top(stack))))
    ELSE Failed("Underflow")

\* interpret_negate that leaves an empty stack as it is.
interpret_negate_ignores_underflow(stack) ==
    IF Len(stack) >= 1
    THEN Pushed(Append(Pop(stack, 1), f64_neg(Top(stack))))
    ELSE Pushed(stack)

interpret_negate(stack) ==
    IF Len(stack) >= 1
    THEN Pushed(Append(Pop(stack, 1), f64_neg(Top(stack))))
    ELSE Failed("Underflow")

interpret_trig(stack, op, radians) ==
    IF Len(stack) >= 1
    THEN LET val == Top(stack)
             operand == IF radians THEN val ELSE to_radians(val)
         IN  CASE op = "Sin" -> Pushed(Append(Pop(stack, 1), sin(operand)))
               [] op = "Cos" -> Pushed(Append(Pop(stack, 1), cos(operand)))
               [] op = "Tan" -> Pushed(Append(Pop(stack, 1), tan(operand)))
               [] OTHER -> Failed("NotImplemented")
    ELSE Failed("Underflow")

interpret_inv_trig(stack, op, radians, answer) ==
    IF Len(stack) >= 1
    THEN LET val == Top(stack)
             nan == op \in {"ArcSin", "ArcCos"} /\ outside_unit(val, answer)
             value == CASE op = "ArcSin" -> asin(val)
                        [] op = "ArcCos" -> acos(val)
                        [] op = "ArcTan" -> atan(val)
         IN  IF op \notin {"ArcSin", "ArcCos", "ArcTan"} THEN Failed("NotImplemented")
             ELSE IF nan THEN Failed("DomainError")
             ELSE Pushed(Append(Pop(stack, 1),
                                IF radians THEN value ELSE to_degrees(value)))
    ELSE Failed("Underflow")

\* The match of the loop of interpret on one operation.
interpret_op(stack, operation, radians, answer) ==
    CASE operation.op = "Add" -> interpret_add(stack)
      [] operation.op = "Subtract" -> interpret_subtract(stack)
      [] operation.op = "Times" -> interpret_times(stack)
      [] operation.op = "Divide" -> interpret_divide(stack, answer)
      [] operation.op = "Negate" -> interpret_negate(stack)
      [] operation.op \in {"Sin", "Cos", "Tan"} -> interpret_trig(stack, operation.op, radians)
      [] operation.op \in {"ArcSin", "ArcCos", "ArcTan"} ->
             interpret_inv_trig(stack, operation.op, radians, answer)
      [] operation.op = "Const" -> Pushed(Append(stack, operation.val))
      [] OTHER -> Failed("NotImplemented")

\* The loop of interpret from operation i on, and its last line.  The result
\* is Ok with stack[0], Err with the error, or a panic when stack[0] is out of
\* range.  Two fields are not in the code's result: stack, the stack at the
\* end, and at, the position of the operation that failed.
RECURSIVE interpret_loop(_, _, _, _, _)
interpret_loop(stack, ops, i, radians, guess) ==
    IF i > Len(ops)
    THEN IF stack = <<>> THEN [kind |-> "Panic"]
         ELSE [kind |-> "Ok", result |-> stack[1], stack |-> stack]
    ELSE LET answer == IF i \in DOMAIN guess THEN guess[i] ELSE FALSE
             r == interpret_op(stack, ops[i], radians, answer)
         IN  IF r.error # "None" THEN [kind |-> "Err", error |-> r.error, at |-> i]
             ELSE interpret_loop(r.stack, ops, i + 1, radians, guess)

VirtualMachine_new == [use_radians |-> TRUE, table |-> <<>>]

\* interpret that records a value in table before it knows the call succeeds.
interpret_stores_on_error(self, ops, guess) ==
    LET r == interpret_loop(<<>>, ops, 1, self.use_radians, guess)
    IN  [result |-> r,
         self |-> IF r.kind = "Err"
                  THEN [self EXCEPT !.table = [k \in {"ans"} |-> Zero]]
                  ELSE self]

\* VirtualMachine::interpret(&mut self, operations): what it returns and the
\* machine it leaves.
interpret(self, ops, guess) ==
    [result |-> interpret_loop(<<>>, ops, 1, self.use_radians, guess),
     self |-> self]

-----------------------------------------------------------------------------
(* The lexer on its own: scan applied to a text.                            *)

\* The longest text is MaxPieces pieces long.
MaxPieces == 3

\* The pieces a text is made of: the nine keywords of the specification, and
\* single bytes of every class that Lexer::scan tells apart (letters, among
\* them 'z' and 'Z', digits, the point, the one-byte tokens, white space, and
\* bytes that start no token).
Pieces ==
    {SinText, CosText, TanText, ArcSinText, ArcCosText, ArcTanText,
     Bytes(<<"l", "n">>), Bytes(<<"e", "x", "p">>), Bytes(<<"a", "n", "s">>)}
    \cup {<<Ch(c)>> : c \in {"a", "s", "z", "Z", "1", "2", ".",
                            "(", ")", ",", "-", "+", "*", "/", "^", "@"}}
    \cup {<<32>>, <<13>>, <<10>>}

NoTable == <<>>

LexInit ==
    /\ pc = "scan"
    /\ \E n \in 0..MaxPieces : \E ps \in [1..n -> Pieces] : source = Concat(ps)
    /\ lexed = None
    /\ tokens = <<>>
    /\ parsed = None
    /\ use_radians = TRUE
    /\ table = NoTable
    /\ operations = <<>>
    /\ result = None
    /\ output = <<>>

\* lexer::scan(source)
Scan ==
    /\ pc = "scan"
    /\ lexed' = scan(source)
    /\ pc' = "scanned"
    /\ UNCHANGED <<source, tokens, parsed, use_radians, table, operations, result, output>>

LexNext == Scan

SpecLexer == LexInit /\ [][LexNext]_vars

-----------------------------------------------------------------------------
(* Properties of the lexer *)

\* The keyword set of the specification and the token kind of each keyword.
SpecKeywords ==
    {SinText, CosText, TanText, ArcSinText, ArcCosText, ArcTanText,
     Bytes(<<"l", "n">>), Bytes(<<"e", "x", "p">>), Bytes(<<"a", "n", "s">>)}

SpecKeywordKind(lexeme) ==
    CASE lexeme = SinText -> "Sin"
      [] lexeme = CosText -> "Cos"
      [] lexeme = TanText -> "Tan"
      [] lexeme = ArcSinText -> "ArcSin"
      [] lexeme = ArcCosText -> "ArcCos"
      [] lexeme = ArcTanText -> "ArcTan"
      [] lexeme = Bytes(<<"l", "n">>) -> "Ln"
      [] lexeme = Bytes(<<"e", "x", "p">>) -> "Exp"
      [] lexeme = Bytes(<<"a", "n", "s">>) -> "Ans"

IsAsciiLetter(c) == c \in (65..90) \cup (97..122)

IsNumberByte(c) == c \in (48..57) \cup {46}

\* The end of the longest run of ASCII letters of src that starts at offset i.
LetterRunEnd(src, i) ==
    CHOOSE j \in i..Len(src) :
        /\ \A k \in (i + 1)..j : IsAsciiLetter(src[k])
        /\ j = Len(src) \/ ~IsAsciiLetter(src[j + 1])

\* The end of the longest run of digits and points of src that starts at offset i.
NumberRunEnd(src, i) ==
    CHOOSE j \in i..Len(src) :
        /\ \A k \in (i + 1)..j : IsNumberByte(src[k])
        /\ j = Len(src) \/ ~IsNumberByte(src[j + 1])

Count(seq, S) == Cardinality({i \in DOMAIN seq : seq[i] \in S})

\* C6: scanning any of the nine keywords sin, cos, tan, arcsin, arccos, arctan,
\* ln, exp, ans alone succeeds with one token of the keyword's own kind, whose
\* lexeme is the keyword, followed by the end-of-input token.
C6_KeywordScansToItsKind ==
    (pc = "scanned" /\ source \in SpecKeywords) =>
        /\ lexed.kind = "Ok"
        /\ Len(lexed.tokens) = 2
        /\ lexed.tokens[1].token_type = SpecKeywordKind(source)
        /\ lexed.tokens[1].lexeme = source
        /\ lexed.tokens[2].token_type = "EOF"

\* C7: when the scanner starts a token at an ASCII letter and the longest run
\* of ASCII letters from there is no keyword, scan fails with UnknownIdentifier
\* carrying the whole run and its span (never with UnexpectedChar).
C7_LetterRunIsUnknownIdentifier ==
    pc = "scanned" =>
        \A n \in DOMAIN lexed.starts :
            LET i == lexed.starts[n]
                j == LetterRunEnd(source, i)
                run == Slice(source, i, j)
            IN  (IsAsciiLetter(source[i + 1]) /\ run \notin SpecKeywords) =>
                    /\ lexed.kind = "Err"
                    /\ lexed.error = UnknownIdentifier(run, <<i, j>>)

\* C8 as stated: every token of a successful scan, the end-of-input token
\* included, has start <= end <= len(source), and the end-of-input token starts
\* and ends at the final consumed offset.
C8_SpansInsideSource ==
    (pc = "scanned" /\ lexed.kind = "Ok") =>
        /\ \A n \in DOMAIN lexed.tokens :
               /\ lexed.tokens[n].span[1] <= lexed.tokens[n].span[2]
               /\ lexed.tokens[n].span[2] <= Len(source)
        /\ lexed.tokens[Len(lexed.tokens)].token_type = "EOF"
        /\ lexed.tokens[Len(lexed.tokens)].span = <<Len(source), Len(source)>>

\* C8 amended: every token of a successful scan other than the end-of-input
\* token has start <= end <= len(source); the last token, and only the last, is
\* the end-of-input token, with no lexeme, and its span starts at len(source),
\* the final consumed offset, and ends one past it.
C8_SpansInsideSourceButEOF ==
    (pc = "scanned" /\ lexed.kind = "Ok") =>
        LET last == Len(lexed.tokens)
        IN  /\ last >= 1
            /\ \A n \in 1..(last - 1) :
                   /\ lexed.tokens[n].token_type # "EOF"
                   /\ lexed.tokens[n].span[1] <= lexed.tokens[n].span[2]
                   /\ lexed.tokens[n].span[2] <= Len(source)
            /\ lexed.tokens[last] = Token("EOF", <<>>, <<Len(source), Len(source) + 1>>)

\* A successful scan of a text with white space that returned two tokens and
\* the end-of-input token.
C8_Witness ==
    /\ pc = "scanned"
    /\ lexed.kind = "Ok"
    /\ Len(lexed.tokens) = 3
    /\ \E i \in DOMAIN source : source[i] \in Whitespace

\* C9: a longest run of digits and points at which the scanner starts a token
\* is accepted as one Number token (its lexeme the run, its span the run's)
\* iff it holds at least one digit and at most one point; otherwise scan fails
\* with InvalidNumber carrying the whole run and the run's span.
C9_NumberRunAcceptedIffOnePoint ==
    pc = "scanned" =>
        \A n \in DOMAIN lexed.starts :
            LET i == lexed.starts[n]
                j == NumberRunEnd(source, i)
                run == Slice(source, i, j)
            IN  IsNumberByte(source[i + 1]) =>
                    IF Count(run, 48..57) >= 1 /\ Count(run, {46}) <= 1
                    THEN /\ \E m \in DOMAIN lexed.tokens :
                                lexed.tokens[m] = Token("Number", run, <<i, j>>)
                         /\ lexed.kind = "Err" => lexed.error.span[1] >= j
                    ELSE /\ lexed.kind = "Err"
                         /\ lexed.error = InvalidNumber(run, <<i, j>>)

\* A scan that failed on a run with two points, after it added a token.
C9_Witness ==
    /\ pc = "scanned"
    /\ lexed.kind = "Err"
    /\ lexed.error.kind = "InvalidNumber"
    /\ Count(lexed.error.lexeme, {46}) = 2
    /\ Len(lexed.tokens) = 1

-----------------------------------------------------------------------------
(* The parser on its own: parse applied to a token sequence that ends in   *)
(* the end-of-input token.                                                  *)

\* The longest token sequence has MaxTokens tokens before the end-of-input token.
MaxTokens == 5

\* The tokens of a sequence: kind and lexeme.  One function keyword stands for
\* the six, which share one parse rule, and the right parenthesis for the
\* kinds that have no rule of their own.
TokenChoices ==
    {<<"LeftParen", <<LParenCh>>>>, <<"RightParen", <<RParenCh>>>>,
     <<"Minus", <<MinusCh>>>>, <<"Plus", <<PlusCh>>>>,
     <<"Slash", <<SlashCh>>>>, <<"Star", <<StarCh>>>>,
     <<"Number", <<Ch("1")>>>>, <<"Number", <<Ch("2")>>>>,
     <<"Sin", SinText>>, <<"Ans", Bytes(<<"a", "n", "s">>)>>}

\* The sequence with spans: token n spans <<n - 1, n>>, and the end-of-input
\* token that Lexer::scan adds closes the sequence.
WithEOF(choice) ==
    [n \in 1..(Len(choice) + 1) |->
        IF n <= Len(choice)
        THEN Token(choice[n][1], choice[n][2], <<n - 1, n>>)
        ELSE Token("EOF", <<>>, <<n - 1, n>>)]

ParseInit ==
    /\ pc = "parse"
    /\ source = <<>>
    /\ lexed = None
    /\ \E n \in 0..MaxTokens : \E choice \in [1..n -> TokenChoices] : tokens = WithEOF(choice)
    /\ parsed = None
    /\ use_radians = TRUE
    /\ table = NoTable
    /\ operations = <<>>
    /\ result = None
    /\ output = <<>>

\* parser::parse(tokens)
Parse ==
    /\ pc = "parse"
    /\ parsed' = parse(tokens)
    /\ pc' = "parsed"
    /\ UNCHANGED <<source, lexed, tokens, use_radians, table, operations, result, output>>

ParseNext == Parse

SpecParser == ParseInit /\ [][ParseNext]_vars

-----------------------------------------------------------------------------
(* Properties of the parser *)

\* The kinds of the tokens of a sequence.
Kinds(toks) == [n \in DOMAIN toks |-> toks[n].token_type]

BinaryKinds == {"Plus", "Minus", "Star", "Slash"}
PrefixKinds == {"Minus"} \cup FunctionTypes

\* The kind sequences that are one complete expression:
\*   E ::= Number | Ans | ( E ) | - E | f E | E + E | E - E | E * E | E / E
RECURSIVE IsExpression(_)
IsExpression(kinds) ==
    LET n == Len(kinds)
    IN  /\ n >= 1
        /\ \/ n = 1 /\ kinds[1] \in {"Number", "Ans"}
           \/ /\ n >= 3
              /\ kinds[1] = "LeftParen"
              /\ kinds[n] = "RightParen"
              /\ IsExpression(SubSeq(kinds, 2, n - 1))
           \/ /\ n >= 2
              /\ kinds[1] \in PrefixKinds
              /\ IsExpression(SubSeq(kinds, 2, n))
           \/ \E k \in 2..(n - 1) :
                 /\ kinds[k] \in BinaryKinds
                 /\ IsExpression(SubSeq(kinds, 1, k - 1))
                 /\ IsExpression(SubSeq(kinds, k + 1, n))

\* C5: parse succeeds only when the tokens before the end-of-input token form
\* exactly one complete expression, and then every one of these tokens has
\* contributed: each token that is no parenthesis one operation, and each left
\* parenthesis is matched by a right one.
C5_ParseAcceptsOneExpressionOnly ==
    (pc = "parsed" /\ parsed.kind = "Ok") =>
        LET before == SubSeq(Kinds(tokens), 1, Len(tokens) - 1)
        IN  /\ IsExpression(before)
            /\ Count(before, {"LeftParen"}) = Count(before, {"RightParen"})
            /\ Len(parsed.operations) =
                   Len(before) - Count(before, {"LeftParen", "RightParen"})

\* The operation of a binary operator token.
SpecBinaryOp(kind) ==
    CASE kind = "Plus" -> Op("Add")
      [] kind = "Minus" -> Op("Subtract")
      [] kind = "Star" -> Op("Times")
      [] kind = "Slash" -> Op("Divide")

\* The constant of a number token whose lexeme is one digit.
SpecConst(token) == Const([num |-> token.lexeme[1] - 48, den |-> 1])

\* C10: for number tokens a, b, c, p in {+, -} and m in {*, /}, parsing
\* a p b m c yields Const(a), Const(b), Const(c), op(m), op(p) and parsing
\* a m b p c yields Const(a), Const(b), op(m), Const(c), op(p).
C10_MultiplicativeBindsTighter ==
    pc = "parsed" =>
        \A p \in {"Plus", "Minus"}, m \in {"Star", "Slash"} :
            /\ Kinds(tokens) = <<"Number", p, "Number", m, "Number", "EOF">> =>
                   parsed = [kind |-> "Ok",
                             operations |-> <<SpecConst(tokens[1]), SpecConst(tokens[3]),
                                              SpecConst(tokens[5]), SpecBinaryOp(m),
                                              SpecBinaryOp(p)>>]
            /\ Kinds(tokens) = <<"Number", m, "Number", p, "Number", "EOF">> =>
                   parsed = [kind |-> "Ok",
                             operations |-> <<SpecConst(tokens[1]), SpecConst(tokens[3]),
                                              SpecBinaryOp(m), SpecConst(tokens[5]),
                                              SpecBinaryOp(p)>>]

\* The parse of 1 - 2 / 1 has returned.
C10_Witness ==
    /\ pc = "parsed"
    /\ Kinds(tokens) = <<"Number", "Minus", "Number", "Slash", "Number", "EOF">>
    /\ tokens[1].lexeme = <<49>>
    /\ tokens[3].lexeme = <<50>>
    /\ parsed.kind = "Ok"
    /\ Len(parsed.operations) = 5

\* The value of a number token whose lexeme is one digit.
SpecDigit(token) == token.lexeme[1] - 48

\* C11: for number tokens a, b, c and operators o1, o2 of one precedence level
\* (both of + -, or both of * /), parsing a o1 b o2 c yields Const(a), Const(b),
\* op(o1), Const(c), op(o2); and the operations parsed from a - b - c evaluate
\* to (a - b) - c.
C11_BinaryOperatorsLeftAssociative ==
    pc = "parsed" =>
        \A level \in {{"Plus", "Minus"}, {"Star", "Slash"}} :
            \A o1 \in level, o2 \in level :
                Kinds(tokens) = <<"Number", o1, "Number", o2, "Number", "EOF">> =>
                    /\ parsed = [kind |-> "Ok",
                                 operations |-> <<SpecConst(tokens[1]), SpecConst(tokens[3]),
                                                  SpecBinaryOp(o1), SpecConst(tokens[5]),
                                                  SpecBinaryOp(o2)>>]
                    /\ (o1 = "Minus" /\ o2 = "Minus") =>
                           LET r == interpret_loop(<<>>, parsed.operations, 1, TRUE, <<>>)
                           IN  /\ r.kind = "Ok"
                               /\ r.result = Int2Rat((SpecDigit(tokens[1]) - SpecDigit(tokens[3]))
                                                          - SpecDigit(tokens[5]))

\* The parse of 1 - 2 - 2 has returned five operations.
C11_Witness ==
    /\ pc = "parsed"
    /\ Kinds(tokens) = <<"Number", "Minus", "Number", "Minus", "Number", "EOF">>
    /\ tokens[1].lexeme = <<49>>
    /\ tokens[3].lexeme = <<50>>
    /\ tokens[5].lexeme = <<50>>
    /\ parsed.kind = "Ok"
    /\ Len(parsed.operations) = 5

-----------------------------------------------------------------------------
(* The virtual machine on its own: one machine, interpret called on        *)
(* operation sequences, the angle mode switched between the calls.          *)

\* The longest operation sequence.
MaxOps == 3

\* The operations of operation.rs, with three constants.
Operations ==
    {Const(Int2Rat(n)) : n \in 0..2}
    \cup {Op(name) : name \in {"Ans", "Negate", "Add", "Subtract", "Times", "Divide",
                               "Sin", "Cos", "Tan", "ArcSin", "ArcCos", "ArcTan",
                               "Ln", "Exp"}}

\* The positions of the operations that test a value.
GuessPositions(ops) ==
    {i \in DOMAIN ops : ops[i].op \in {"Divide", "ArcSin", "ArcCos"}}

VMInit ==
    /\ pc = "idle"
    /\ source = <<>>
    /\ lexed = None
    /\ tokens = <<>>
    /\ parsed = None
    /\ use_radians = VirtualMachine_new.use_radians
    /\ table = VirtualMachine_new.table
    /\ operations = <<>>
    /\ result = None
    /\ output = <<>>

\* A caller hands an operation sequence to interpret.
Call ==
    /\ pc = "idle"
    /\ \E n \in 0..MaxOps : \E ops \in [1..n -> Operations] : operations' = ops
    /\ pc' = "called"
    /\ UNCHANGED <<source, lexed, tokens, parsed, use_radians, table, result, output>>

\* vm.interpret(&operations); a panic ends the process.
Interpret ==
    /\ pc = "called"
    /\ \E guess \in [GuessPositions(operations) -> BOOLEAN] :
          LET r == interpret([use_radians |-> use_radians, table |-> table],
                             operations, guess)
          IN  /\ result' = r.result
              /\ use_radians' = r.self.use_radians
              /\ table' = r.self.table
              /\ pc' = IF r.result.kind = "Panic" THEN "aborted" ELSE "returned"
    /\ UNCHANGED <<source, lexed, tokens, parsed, operations, output>>

\* The caller is done with the result.
Return ==
    /\ pc = "returned"
    /\ pc' = "idle"
    /\ operations' = <<>>
    /\ result' = None
    /\ UNCHANGED <<source, lexed, tokens, parsed, use_radians, table, output>>

\* main.rs: "--mode=radian" and "--mode=degree" set the field between calls.
SetMode ==
    /\ pc = "idle"
    /\ \E radians \in BOOLEAN : use_radians' = radians
    /\ UNCHANGED <<pc, source, lexed, tokens, parsed, table, operations, result, output>>

VMNext == Call \/ Interpret \/ Return \/ SetMode

SpecVM == VMInit /\ [][VMNext]_vars

-----------------------------------------------------------------------------
(* Properties of the virtual machine *)

\* The answer the machine stores: table is all it holds besides use_radians,
\* and it stores an answer when table has an entry.
LastAnswer(tbl) ==
    IF DOMAIN tbl = {} THEN None
    ELSE [kind |-> "Some", val |-> tbl[CHOOSE k \in DOMAIN tbl : TRUE]]

\* interpret has got as far as the operation at position i.
Reached(r, i) == r.kind # "Err" \/ r.at >= i

\* The step is a call of interpret coming back (or panicking).
InterpretStep == pc = "called" /\ pc' # "called"

\* C1: the machine starts with no stored answer; a call that returns a result
\* stores that result as the last answer, any other call leaves the stored
\* answer as it was (so the stored answer is the result of the most recent
\* successful call); and Ans in a later call pushes exactly the stored answer.
C1_LastAnswerIsLastResult ==
    /\ LastAnswer(table) = None
    /\ [][InterpretStep =>
            /\ IF result'.kind = "Ok"
               THEN LastAnswer(table') = [kind |-> "Some", val |-> result'.result]
               ELSE LastAnswer(table') = LastAnswer(table)
            /\ (operations = <<Op("Ans")>> /\ LastAnswer(table) # None) =>
                   /\ result'.kind = "Ok"
                   /\ result'.result = LastAnswer(table).val]_vars

\* C2: when interpret reaches an Ans operation and the machine has no previous
\* answer, the call fails there with Underflow; with a previous answer, Ans
\* does not fail, and pushes that answer.
C2_AnsWithoutAnswerUnderflows ==
    [][InterpretStep =>
          \A i \in DOMAIN operations :
              (/\ operations[i] = Op("Ans")
               /\ \A j \in 1..(i - 1) : operations[j] # Op("Ans")
               /\ Reached(result', i)) =>
                  IF LastAnswer(table) = None
                  THEN result' = [kind |-> "Err", error |-> "Underflow", at |-> i]
                  ELSE /\ ~(result'.kind = "Err" /\ result'.at = i)
                       /\ operations = <<Op("Ans")>> =>
                              /\ result'.kind = "Ok"
                              /\ result'.result = LastAnswer(table).val]_vars

\* C3: interpret never writes use_radians, and a call that does not return a
\* result (it returns Underflow, MathError, DomainError or NotImplemented)
\* leaves the stored answer as it was.
C3_FailedInterpretLeavesMachine ==
    [][InterpretStep =>
          /\ use_radians' = use_radians
          /\ result'.kind # "Ok" => table' = table]_vars

\* A call in degree mode came back with a domain error.
C3_Witness ==
    /\ pc = "returned"
    /\ result.kind = "Err"
    /\ result.error = "DomainError"
    /\ ~use_radians

\* C4: interpret returns a result only when exactly one value is on the stack
\* after the last operation.
C4_ResultOnlyFromOneValue ==
    (pc = "returned" /\ result.kind = "Ok") => Len(result.stack) = 1

\* The operation sequence Const(a), Const(b), op.
SpecBinary(a, b, op) == <<Const(Int2Rat(a)), Const(Int2Rat(b)), Op(op)>>

\* The fraction v is the quotient a / b of integers, b not zero.
IsQuotient(v, a, b) == IsRat(v) /\ v.den > 0 /\ v.num * b = a * v.den

\* C12: interpreting Const(a), Const(b), op takes a, the value popped second,
\* as the left operand and b, popped first, as the right one: Add returns
\* a + b, Subtract a - b, Times a * b, and Divide, for b not zero, a / b.
C12_SecondPoppedIsLeftOperand ==
    pc = "returned" =>
        \A a \in 0..2, b \in 0..2 :
            /\ operations = SpecBinary(a, b, "Add") =>
                   result.kind = "Ok" /\ result.result = Int2Rat(a + b)
            /\ operations = SpecBinary(a, b, "Subtract") =>
                   result.kind = "Ok" /\ result.result = Int2Rat(a - b)
            /\ operations = SpecBinary(a, b, "Times") =>
                   result.kind = "Ok" /\ result.result = Int2Rat(a * b)
            /\ (operations = SpecBinary(a, b, "Divide") /\ b # 0) =>
                   result.kind = "Ok" /\ IsQuotient(result.result, a, b)

\* interpret has returned from Const(1), Const(2), Subtract.
C12_Witness ==
    /\ pc = "returned"
    /\ operations = SpecBinary(1, 2, "Subtract")
    /\ result.kind = "Ok"

\* C13: interpreting Const(a), Const(b), Divide fails with MathError iff b is
\* zero and otherwise returns a / b; and in any operation sequence a Divide
\* reached right after Const(0) ends the call with an error at the Divide, so
\* that no value is pushed for a zero divisor.
C13_DivideFailsIffDivisorZero ==
    pc = "returned" =>
        /\ \A a \in 0..2, b \in 0..2 :
               operations = SpecBinary(a, b, "Divide") =>
                   IF b = 0
                   THEN result = [kind |-> "Err", error |-> "MathError", at |-> 3]
                   ELSE /\ result.kind = "Ok"
                        /\ IsQuotient(result.result, a, b)
                        /\ result.stack = <<result.result>>
        /\ \A i \in 2..Len(operations) :
               (/\ operations[i] = Op("Divide")
                /\ operations[i - 1] = Const(Zero)
                /\ Reached(result, i)) =>
                   /\ result.kind = "Err"
                   /\ result.at = i
                   /\ result.error = IF i >= 3 THEN "MathError" ELSE "Underflow"

\* interpret has returned MathError from Const(2), Const(0), Divide.
C13_Witness ==
    /\ pc = "returned"
    /\ operations = SpecBinary(2, 0, "Divide")
    /\ result.kind = "Err"
    /\ result.error = "MathError"

SpecBinaryOps == {"Add", "Subtract", "Times", "Divide"}
SpecUnaryOps == {"Negate", "Sin", "Cos", "Tan", "ArcSin", "ArcCos", "ArcTan"}

\* The operands an operation takes from the stack.
SpecOperands(operation) ==
    IF operation.op \in SpecBinaryOps THEN 2
    ELSE IF operation.op \in SpecUnaryOps THEN 1
    ELSE 0

\* The values on the stack when operation i is reached: one more for every
\* Const (or Ans) before it, one less for every binary operation.
RECURSIVE SpecDepth(_, _)
SpecDepth(ops, i) ==
    IF i <= 1 THEN 0
    ELSE SpecDepth(ops, i - 1)
             + (IF ops[i - 1].op \in {"Const", "Ans"} THEN 1
                ELSE IF ops[i - 1].op \in SpecBinaryOps THEN -1
                ELSE 0)

\* C14: when interpret reaches a binary operation with fewer than two values
\* on the stack, or Negate or a trigonometric operation with none, the call
\* fails with Underflow at that operation, and no later operation is executed.
C14_UnderflowAlwaysReported ==
    pc \in {"returned", "aborted"} =>
        \A i \in DOMAIN operations :
            (/\ Reached(result, i)
             /\ SpecOperands(operations[i]) > SpecDepth(operations, i)) =>
                result = [kind |-> "Err", error |-> "Underflow", at |-> i]

\* interpret has returned Underflow from the second of three operations: a
\* binary operation that found one value.
C14_Witness ==
    /\ pc = "returned"
    /\ Len(operations) = 3
    /\ operations[1].op = "Const"
    /\ operations[2].op \in SpecBinaryOps
    /\ result = [kind |-> "Err", error |-> "Underflow", at |-> 2]

-----------------------------------------------------------------------------
(* The operations a parse returns, as a program for the stack *)

\* A postfix program: not empty; run from the left on an empty stack every
\* operation finds its operands, and one value is left after the last one.
SpecWellFormed(ops) ==
    /\ Len(ops) >= 1
    /\ \A i \in DOMAIN ops : SpecOperands(ops[i]) <= SpecDepth(ops, i)
    /\ SpecDepth(ops, Len(ops) + 1) = 1

\* C17: the operations of every successful parse of a token sequence that ends
\* in the end-of-input token are a non-empty well-formed postfix program.
C17_ParsedOperationsWellFormed ==
    (pc = "parsed" /\ parsed.kind = "Ok") => SpecWellFormed(parsed.operations)

\* A successful parse that returned a constant, the stored answer, a unary
\* and a binary operation.
C17_Witness ==
    /\ pc = "parsed"
    /\ parsed.kind = "Ok"
    /\ Len(parsed.operations) = 4
    /\ \E i \in 1..4 : parsed.operations[i].op = "Ans"
    /\ \E i \in 1..4 : parsed.operations[i].op = "Const"
    /\ \E i \in 1..4 : parsed.operations[i].op \in SpecUnaryOps
    /\ \E i \in 1..4 : parsed.operations[i].op \in SpecBinaryOps

-----------------------------------------------------------------------------
(* The read-loop: src/src/main.rs, repl                                    *)
(*                                                                         *)
(* One turn of the loop reads a line and, unless the line is a command or  *)
(* blank, runs scan, parse and interpret on it, each on what the stage     *)
(* before returned.  output holds what the turn has written so far: every  *)
(* write with its stream, the function whose code wrote it, and its text,  *)
(* a format string with its arguments.  A panic ends the process.          *)

\* The longest line is MaxLine pieces and the line feed.
MaxLine == 3

Fmt(fmt, args) == [fmt |-> fmt, args |-> args]

Write(stream, by, text) == [stream |-> stream, by |-> by, text |-> text]

\* impl fmt::Display for LexError
lex_error_fmt(e) ==
    CASE e.kind = "UnexpectedChar" ->
             Fmt("Unexpected character '{}' at {}..{}", <<e.char, e.span[1], e.span[2]>>)
      [] e.kind = "UnknownIdentifier" ->
             Fmt("Unknown identifier '{}' at {}..{}", <<e.lexeme, e.span[1], e.span[2]>>)
      [] e.kind = "InvalidNumber" ->
             Fmt("Invalid number '{}' at {}..{}", <<e.lexeme, e.span[1], e.span[2]>>)
      [] e.kind = "InvalidUTF8" ->
             Fmt("Invalid UTF-8 sequence at {}..{}", <<e.span[1], e.span[2]>>)

\* impl fmt::Display for ParseError
parse_error_fmt(e) ==
    CASE e.kind = "ExpectExpression" ->
             Fmt("Expected an expression at {}", <<e.token.span[1]>>)
      [] e.kind = "ExpectEndOfExpression" -> Fmt("Expected the end of expression", <<>>)
      [] e.kind = "ExpectRightParenAfterExpression" ->
             Fmt("Expected ')' after expression at {}", <<e.token.span[1]>>)

\* impl fmt::Display for RuntimeError: the name of the variant.
runtime_error_fmt(e) == Fmt(e, <<>>)

\* impl fmt::Display for InterpretOutput
interpret_output_fmt(val) == Fmt("Output: {}", <<val>>)

\* println!("{}", c) in Lexer::number, for every character the scan printed.
scan_writes(r) ==
    [i \in 1..Len(r.stdout) |-> Write("stdout", "scan", Fmt("{}\n", <<r.stdout[i]>>))]

\* print!(">> ")
Prompt == Write("stdout", "repl", Fmt(">> ", <<>>))

\* str::trim: white space is taken off both ends.
TrimSpace == {9, 10, 11, 12, 13, 32}

RECURSIVE trim_start(_)
trim_start(text) ==
    IF text # <<>> /\ Head(text) \in TrimSpace THEN trim_start(Tail(text)) ELSE text

RECURSIVE trim_end(_)
trim_end(text) ==
    IF text # <<>> /\ text[Len(text)] \in TrimSpace
    THEN trim_end(SubSeq(text, 1, Len(text) - 1))
    ELSE text

trim(text) == trim_end(trim_start(text))

QuitText == Bytes(<<"q">>)
ExitText == Bytes(<<"e", "x", "i", "t">>)
ModeRadianText == Bytes(<<"-", "-", "m", "o", "d", "e", "=", "r", "a", "d", "i", "a", "n">>)
ModeDegreeText == Bytes(<<"-", "-", "m", "o", "d", "e", "=", "d", "e", "g", "r", "e", "e">>)

\* The pieces a line is made of: the commands of the loop, and text for the
\* lexer: digits, the point, operators, parentheses, a function, a letter the
\* lexer rejects, and a space.
LinePieces ==
    {QuitText, ModeRadianText, ModeDegreeText, ArcSinText, <<32>>}
    \cup {<<Ch(c)>> : c \in {"0", "1", "2", ".", "+", "-", "/", "(", ")", "z"}}

ReplInit ==
    /\ pc = "prompt"
    /\ source = <<>>
    /\ lexed = None
    /\ tokens = <<>>
    /\ parsed = None
    /\ use_radians = VirtualMachine_new.use_radians
    /\ table = VirtualMachine_new.table
    /\ operations = <<>>
    /\ result = None
    /\ output = <<>>

\* The turn starts: the prompt, read_line, and the match on the trimmed line.
ReadLine ==
    /\ pc = "prompt"
    /\ UNCHANGED <<lexed, tokens, parsed, table, operations, result>>
    /\ \/ \* bytes == 0: the input has ended
          /\ source' = <<>>
          /\ output' = <<Prompt, Write("stdout", "repl", Fmt("\nExiting...\n", <<>>))>>
          /\ use_radians' = use_radians
          /\ pc' = "exited"
       \/ \E n \in 0..MaxLine : \E ps \in [1..n -> LinePieces] :
             LET input == Concat(ps) \o <<10>>
                 trimmed == trim(input)
             IN  /\ source' = input
                 /\ output' = <<Prompt>>
                 /\ use_radians' = CASE trimmed = ModeRadianText -> TRUE
                                     [] trimmed = ModeDegreeText -> FALSE
                                     [] OTHER -> use_radians
                 /\ pc' = CASE trimmed \in {QuitText, ExitText} -> "exited"
                            [] trimmed \in {ModeRadianText, ModeDegreeText, <<>>} -> "done"
                            [] OTHER -> "scan"

\* let tokens = lexer::scan(input), and the Err arm of match tokens.
ReplScan ==
    /\ pc = "scan"
    /\ lexed' = scan(source)
    /\ tokens' = IF lexed'.kind = "Ok" THEN lexed'.tokens ELSE <<>>
    /\ output' = output \o scan_writes(lexed')
                    \o IF lexed'.kind = "Err"
                       THEN <<Write("stderr", "repl", lex_error_fmt(lexed'.error))>>
                       ELSE <<>>
    /\ pc' = IF lexed'.kind = "Ok" THEN "parse" ELSE "done"
    /\ UNCHANGED <<source, parsed, use_radians, table, operations, result>>

\* let operations = parser::parse(tokens), and the Err arm of match operations.
ReplParse ==
    /\ pc = "parse"
    /\ parsed' = parse(tokens)
    /\ operations' = IF parsed'.kind = "Ok" THEN parsed'.operations ELSE <<>>
    /\ output' = output \o IF parsed'.kind = "Err"
                            THEN <<Write("stderr", "repl", parse_error_fmt(parsed'.error))>>
                            ELSE <<>>
    /\ pc' = CASE parsed'.kind = "Ok" -> "interpret"
               [] parsed'.kind = "Err" -> "done"
               [] parsed'.kind = "Panic" -> "aborted"
    /\ UNCHANGED <<source, lexed, tokens, use_radians, table, result>>

\* let result = vm.interpret(&operations), and match result.
ReplInterpret ==
    /\ pc = "interpret"
    /\ \E guess \in [GuessPositions(operations) -> BOOLEAN] :
          LET r == interpret([use_radians |-> use_radians, table |-> table],
                             operations, guess)
          IN  /\ result' = r.result
              /\ use_radians' = r.self.use_radians
              /\ table' = r.self.table
    /\ output' = output \o
           CASE result'.kind = "Ok" ->
                    <<Write("stdout", "repl", interpret_output_fmt(result'.result))>>
             [] result'.kind = "Err" ->
                    <<Write("stderr", "repl", runtime_error_fmt(result'.error))>>
             [] result'.kind = "Panic" -> <<>>
    /\ pc' = IF result'.kind = "Panic" THEN "aborted" ELSE "done"
    /\ UNCHANGED <<source, lexed, tokens, parsed, operations>>

\* The turn ends (`continue`, or the end of the body of the loop): the line,
\* the tokens, the operations and the result go out of scope.
Continue ==
    /\ pc = "done"
    /\ pc' = "prompt"
    /\ source' = <<>>
    /\ lexed' = None
    /\ tokens' = <<>>
    /\ parsed' = None
    /\ operations' = <<>>
    /\ result' = None
    /\ output' = <<>>
    /\ UNCHANGED <<use_radians, table>>

Next == ReadLine \/ ReplScan \/ ReplParse \/ ReplInterpret \/ Continue

Spec == ReplInit /\ [][Next]_vars

-----------------------------------------------------------------------------
(* Properties of the read-loop *)

\* C15: scan, parse and interpret write nothing to standard output or standard
\* error: every write of a turn is made by the read-loop's own code, and a turn
\* that ran the stages writes the prompt and then one line, the result or the
\* error that the last stage returned.
C15_StagesWriteNothing ==
    /\ \A i \in DOMAIN output : output[i].by = "repl"
    /\ lexed # None => lexed.stdout = <<>>
    /\ (pc = "done" /\ lexed # None) => Len(output) = 2

\* The step runs one of the three stages.
StageStep == pc \in {"scan", "parse", "interpret"}

\* C16: no line is fatal.  No stage panics; a turn that ran the stages ends
\* with scan's error and nothing parsed, or with parse's error and nothing
\* interpreted, or with interpret's result or RuntimeError; no stage changes
\* use_radians or the stored answer, and neither does the end of the turn,
\* after which the loop is at the prompt again and can read the next line.
C16_NoLineIsFatal ==
    /\ [](pc # "aborted")
    /\ []((pc = "done" /\ lexed # None) =>
            /\ lexed.kind \in {"Ok", "Err"}
            /\ lexed.kind = "Err" => (parsed = None /\ result = None)
            /\ lexed.kind = "Ok" => parsed.kind \in {"Ok", "Err"}
            /\ parsed.kind = "Err" => result = None
            /\ parsed.kind = "Ok" =>
                   /\ result.kind \in {"Ok", "Err"}
                   /\ result.kind = "Err" => result.error \in RuntimeError)
    /\ [](pc \in {"prompt", "done"} => ENABLED Next)
    /\ [][StageStep =>
              /\ use_radians' = use_radians
              /\ table' = table
              /\ pc' \in {"parse", "interpret", "done"}]_vars
    /\ [][pc = "done" =>
              /\ use_radians' = use_radians
              /\ table' = table
              /\ pc' = "prompt"]_vars

\* In degree mode, a turn whose line was scanned and parsed has ended with a
\* RuntimeError.
C16_Witness ==
    /\ pc = "done"
    /\ ~use_radians
    /\ lexed.kind = "Ok"
    /\ parsed.kind = "Ok"
    /\ result.kind = "Err"

=============================================================================
